---------------------------- MODULE Spec2Model ----------------------------
(***************************************************************************)
(* OculusRoomReallyTiny (SDK 0.7): the window, the MainLoop session and    *)
(* its render loop, as a state machine.  main.cpp holds two revisions of   *)
(* the sample (lines 1-819 and 821-1590); `rev' selects which one runs.    *)
(* SDK and OS calls are environment steps: their results are chosen from   *)
(* the sets below.  Floating point values are kept symbolic: an angle is   *)
(* a count of increments, a camera position is its start plus an integer   *)
(* number of steps along each (axis, rotation) direction.                  *)
(***************************************************************************)
EXTENDS Integers, Sequences, FiniteSets, TLC

\* ------------------------------------------------------------------ bounds
MaxSessions == 3      \* calls of MainLoop in one run
MaxClock == 3         \* increments of the static cubeClock (loop iterations) in one run
MaxMsgs == 2          \* window messages pending at one HandleMessages call
MaxYaw == 1           \* |Yaw| (in increments of 0.02 rad) drawn for the camera check
MaxTextureCount == 3  \* largest TextureCount the runtime may hand back

\* --------------------------------------------------------- program constants
TexRtvSize == 2        \* ID3D11RenderTargetViewPtr TexRtv[2]
StepHundredths == 5    \* |forward| = |right| = 0.05
CubeHeight == 3        \* y of the animated cube
SleepMs == 10          \* Sleep(10) in Run

Revs == {1, 2}
Eyes == {0, 1}         \* ovrEye_Left, ovrEye_Right

\* ---------------------------------------------------------------- ovrResult
ovrSuccess == "ovrSuccess"
ovrSuccess_NotVisible == "ovrSuccess_NotVisible"
ovrError_DisplayLost == "ovrError_DisplayLost"
ovrError_Other == "ovrError_ServiceConnection"

OVR_SUCCESS(r) == r \in {ovrSuccess, ovrSuccess_NotVisible}

CallResults == {ovrSuccess, ovrError_Other}
SubmitResults == {ovrSuccess, ovrSuccess_NotVisible, ovrError_DisplayLost, ovrError_Other}

\* ------------------------------------------------------------------- state
VARIABLES
    rev,            \* revision of main.cpp being run
    pc,             \* position of the single thread
    exitCode,       \* argument of exit(), or WinMain's return value
    exitMsg,        \* text of the MessageBoxA shown by a failed VALIDATE
    libOVR,         \* "none" | "initialized" | "shutdown"
    Running,        \* Window::Running / DirectX11::Running
    Key,            \* set of virtual keys recorded as down
    retryCreate,    \* argument of the MainLoop call in progress
    calls,          \* MainLoop calls so far: [retryCreate, ret]
    lastEnd,        \* why the last MainLoop call returned
    sleeps,         \* durations of the Sleep calls made by Run
    result,         \* MainLoop's local ovrResult
    HMD,            \* handle held by MainLoop's unique_ptr, 0 = null
    hmdDestroyed,   \* handle -> number of ovr_Destroy calls on it
    TextureSet,     \* eye -> swap texture set of EyeRenderTexture[eye]
    mirrorTexture,  \* TRUE while the mirror texture exists
    eye,            \* loop variable of the per-eye loops
    isVisible,
    steps,          \* steps of the current render-loop iteration, in order
    renders,        \* per-eye renders of the current iteration
    submitted,      \* results of ovr_SubmitFrame in the current iteration
    Models,         \* roomScene.Models
    cubeClock,      \* static float, in increments of 0.015
    mainCam,        \* [Pos, Rot]
    Yaw,            \* static float, in increments of 0.02
    hmdDesc,        \* MainLoop's hmdDesc: [Resolution]
    DIRECTX,        \* the DirectX11 object: [WinSizeW, WinSizeH, Client, BackBuffer]
    deviceInits,    \* runs of DirectX11::InitDevice / DirectX11::DirectX11 so far
    mirrorTd,       \* size the mirror texture was created with: [Width, Height]
    setup,          \* set-up steps of the current MainLoop call, in order
    frames,         \* render-loop iterations begun in the current MainLoop call
    advanced,       \* eye -> [count of AdvanceToNextTexture calls, rtv last rendered to]
    triangleSet,    \* a TriangleSet under construction: [Vertices, Indices]
    boxes,          \* AddBox calls made on triangleSet so far
    texFill,        \* createTexture's argument
    pixRow,         \* createTexture's outer loop variable (j, y): rows filled so far
    pix,            \* createTexture's pix, kept in chunks of SizeW elements
    assigned        \* assignments to pix so far: [count, at (the indices assigned)]

vars == <<rev, pc, exitCode, exitMsg, libOVR, Running, Key, retryCreate, calls,
          lastEnd, sleeps, result, HMD, hmdDestroyed, TextureSet, mirrorTexture,
          eye, isVisible, steps, renders, submitted, Models, cubeClock, mainCam, Yaw,
          hmdDesc, DIRECTX, deviceInits, mirrorTd, setup, frames, advanced, triangleSet, boxes, texFill, pixRow, pix, assigned>>

\* ------------------------------------------------------------ window input
CtlKeys == {"Q", "CONTROL", "ESCAPE"}
MoveKeys == {"W", "S", "A", "D", "UP", "DOWN", "LEFT", "RIGHT"}
\* the keys whose messages reach the window in Spec; SpecCam draws every movement key
PumpedKeys == CtlKeys \cup {"W"}

Messages(K) ==
    {[type |-> t, wParam |-> k] : t \in {"WM_KEYDOWN", "WM_KEYUP"}, k \in K}
        \cup {[type |-> "WM_DESTROY", wParam |-> "0"], [type |-> "WM_PAINT", wParam |-> "0"]}

MsgSeqs(K) == UNION {[1..n -> Messages(K)] : n \in 0..MaxMsgs}

\* mutant of WindowProc: Running is assigned the negation of the exit-key test
WindowProc_assign(w, Msg) ==
    IF Msg.type \notin {"WM_KEYDOWN", "WM_KEYUP", "WM_DESTROY"}
    THEN w
    ELSE LET w1 == CASE Msg.type = "WM_KEYDOWN" -> [w EXCEPT !.Key = @ \cup {Msg.wParam}]
                     [] Msg.type = "WM_KEYUP" -> [w EXCEPT !.Key = @ \ {Msg.wParam}]
                     [] Msg.type = "WM_DESTROY" -> [w EXCEPT !.Running = FALSE]
         IN  [w1 EXCEPT !.Running =
                 ~(("Q" \in w1.Key /\ "CONTROL" \in w1.Key) \/ "ESCAPE" \in w1.Key)]

\* mutant of WindowProc: Q quits without Control
WindowProc_anyQ(w, Msg) ==
    IF Msg.type \notin {"WM_KEYDOWN", "WM_KEYUP", "WM_DESTROY"}
    THEN w
    ELSE LET w1 == CASE Msg.type = "WM_KEYDOWN" -> [w EXCEPT !.Key = @ \cup {Msg.wParam}]
                     [] Msg.type = "WM_KEYUP" -> [w EXCEPT !.Key = @ \ {Msg.wParam}]
                     [] Msg.type = "WM_DESTROY" -> [w EXCEPT !.Running = FALSE]
         IN  IF ("Q" \in w1.Key \/ "CONTROL" \in w1.Key) \/ "ESCAPE" \in w1.Key
             THEN [w1 EXCEPT !.Running = FALSE]
             ELSE w1

\* WindowProc on the window state w = [Running, Key]
WindowProc(w, Msg) ==
    IF Msg.type \notin {"WM_KEYDOWN", "WM_KEYUP", "WM_DESTROY"}
    THEN w  \* DefWindowProcW
    ELSE LET w1 == CASE Msg.type = "WM_KEYDOWN" -> [w EXCEPT !.Key = @ \cup {Msg.wParam}]
                     [] Msg.type = "WM_KEYUP" -> [w EXCEPT !.Key = @ \ {Msg.wParam}]
                     [] Msg.type = "WM_DESTROY" -> [w EXCEPT !.Running = FALSE]
         IN  IF ("Q" \in w1.Key /\ "CONTROL" \in w1.Key) \/ "ESCAPE" \in w1.Key
             THEN [w1 EXCEPT !.Running = FALSE]
             ELSE w1

RECURSIVE Dispatch(_, _)
\* the PeekMessage / DispatchMessage loop of HandleMessages
Dispatch(w, msgs) ==
    IF msgs = <<>> THEN w ELSE Dispatch(WindowProc(w, Head(msgs)), Tail(msgs))

\* HandleMessages: pump every pending message, then report Running
HandleMessages(w, msgs) ==
    LET w1 == Dispatch(w, msgs) IN [window |-> w1, ret |-> w1.Running]

\* ------------------------------------------------------------- unique_ptr
\* mutant of unique_ptr_dtor: the handle is released, not destroyed
unique_ptr_dtor_leak(h, destroyed) == destroyed

\* ~unique_ptr of HMD with deleter ovr_Destroy: a null pointer is not deleted
unique_ptr_dtor(h, destroyed) ==
    IF h # 0 THEN [destroyed EXCEPT ![h] = @ + 1] ELSE destroyed

\* ---------------------------------------------------------- OculusTexture
NullTS == [TextureCount |-> 0, CurrentIndex |-> 0]

\* OculusTexture::OculusTexture: r and ts are what ovr_CreateSwapTextureSetD3D11
\* hands back; msg is the text of the VALIDATE that failed, "" if none did
OculusTexture(r, ts) ==
    IF ~OVR_SUCCESS(r) THEN [msg |-> "Failed to create SwapTextureSet.", ts |-> NullTS]
    ELSE IF ts.TextureCount # TexRtvSize THEN [msg |-> "TextureCount mismatch.", ts |-> NullTS]
    ELSE [msg |-> "", ts |-> ts]

\* mutant of AdvanceToNextTexture: the index is not wrapped
AdvanceToNextTexture_nowrap(ts) ==
    [ts EXCEPT !.CurrentIndex = ts.CurrentIndex + 1]

\* OculusTexture::AdvanceToNextTexture: the set with CurrentIndex advanced; the
\* value returned is the new CurrentIndex
AdvanceToNextTexture(ts) ==
    [ts EXCEPT !.CurrentIndex = (ts.CurrentIndex + 1) % ts.TextureCount]

\* mutant of RenderEye: every eye is rendered with EyeDepthBuffer[0]
RenderEye_sharedDepth(e, texIndex) ==
    [eye |-> e, texture |-> e, rtv |-> texIndex, depth |-> 0, viewport |-> e,
     pose |-> e, fov |-> e]

\* what one pass of the per-eye loop binds: EyeRenderTexture[eye].TexRtv[texIndex],
\* EyeDepthBuffer[eye], eyeRenderViewport[eye], EyeRenderPose[eye], eyeRenderDesc[eye]
RenderEye(e, texIndex) ==
    [eye |-> e, texture |-> e, rtv |-> texIndex, depth |-> e, viewport |-> e,
     pose |-> e, fov |-> e]

\* ------------------------------------------------------------------ Scene
\* a float coordinate amp * fn(arg): fn "one" is a constant, arg counts clock increments
Const(c) == [amp |-> c, fn |-> "one", arg |-> 0]

XMFLOAT3(a, b, c) == [x |-> a, y |-> b, z |-> c]

Model(n, pos, tex) == [name |-> n, Pos |-> pos, Tex |-> tex]

\* Scene::Scene
Scene ==
    << Model("cube", XMFLOAT3(Const(0), Const(0), Const(0)), "AUTO_CEILING"),
       Model("spareCube", XMFLOAT3(Const(0), Const(-10), Const(0)), "AUTO_CEILING"),
       Model("walls", XMFLOAT3(Const(0), Const(0), Const(0)), "AUTO_WALL"),
       Model("floors", XMFLOAT3(Const(0), Const(0), Const(0)), "AUTO_FLOOR"),
       Model("ceiling", XMFLOAT3(Const(0), Const(0), Const(0)), "AUTO_CEILING"),
       Model("furniture", XMFLOAT3(Const(0), Const(0), Const(0)), "AUTO_WHITE") >>

\* mutant of AnimateCube: the constant and the cosine change places
AnimateCube_swapped(models, clock, xArg) ==
    [models EXCEPT ![1].Pos = XMFLOAT3([amp |-> 9, fn |-> "sin", arg |-> xArg],
                                       [amp |-> 9, fn |-> "cos", arg |-> clock + 1],
                                       Const(CubeHeight))]

\* "Animate the cube": cube->Pos = XMFLOAT3(9 * sin(cubeClock), 3, 9 * cos(cubeClock += 0.015f)).
\* The read of cubeClock in the first argument is unsequenced with the += in the
\* third: xArg is the value that read sees.
AnimateCube(models, clock, xArg) ==
    [models EXCEPT ![1].Pos = XMFLOAT3([amp |-> 9, fn |-> "sin", arg |-> xArg],
                                       Const(CubeHeight),
                                       [amp |-> 9, fn |-> "cos", arg |-> clock + 1])]

\* ----------------------------------------------------------------- Camera
\* A direction is (axis, rotation); a position is its start plus, per direction,
\* the hundredths moved along it.
Basis == {"forward", "right"} \X (-MaxYaw..MaxYaw)

XMVector3Rotate(axis, len, rot) == [dir |-> <<axis, rot>>, len |-> len]

XMVectorAdd(p, v) == [p EXCEPT !.moved[v.dir] = @ + v.len]

XMVectorSubtract(p, v) == [p EXCEPT !.moved[v.dir] = @ - v.len]

\* Camera{XMVectorSet(0.0f, 1.6f, 5.0f, 0), XMQuaternionIdentity()}
Camera == [Pos |-> [at |-> <<0, 160, 500>>, moved |-> [b \in Basis |-> 0]], Rot |-> 0]

\* mutant of HandleInput: the S / Down test hangs on an else of the W / Up test
HandleInput_elseif(cam, yaw, key) ==
    LET forward == XMVector3Rotate("forward", StepHundredths, cam.Rot)
        right == XMVector3Rotate("right", StepHundredths, cam.Rot)
        p2 == IF "W" \in key \/ "UP" \in key THEN XMVectorAdd(cam.Pos, forward)
              ELSE IF "S" \in key \/ "DOWN" \in key THEN XMVectorSubtract(cam.Pos, forward)
              ELSE cam.Pos
        p3 == IF "D" \in key THEN XMVectorAdd(p2, right) ELSE p2
        p4 == IF "A" \in key THEN XMVectorSubtract(p3, right) ELSE p3
        y1 == IF "LEFT" \in key THEN yaw + 1 ELSE yaw
        r1 == IF "LEFT" \in key THEN y1 ELSE cam.Rot
        y2 == IF "RIGHT" \in key THEN y1 - 1 ELSE y1
        r2 == IF "RIGHT" \in key THEN y2 ELSE r1
    IN  [cam |-> [Pos |-> p4, Rot |-> r2], Yaw |-> y2]

\* "Handle input": the lambda on mainCam, the static Yaw and the key table
HandleInput(cam, yaw, key) ==
    LET forward == XMVector3Rotate("forward", StepHundredths, cam.Rot)
        right == XMVector3Rotate("right", StepHundredths, cam.Rot)
        p1 == IF "W" \in key \/ "UP" \in key THEN XMVectorAdd(cam.Pos, forward) ELSE cam.Pos
        p2 == IF "S" \in key \/ "DOWN" \in key THEN XMVectorSubtract(p1, forward) ELSE p1
        p3 == IF "D" \in key THEN XMVectorAdd(p2, right) ELSE p2
        p4 == IF "A" \in key THEN XMVectorSubtract(p3, right) ELSE p3
        y1 == IF "LEFT" \in key THEN yaw + 1 ELSE yaw
        r1 == IF "LEFT" \in key THEN y1 ELSE cam.Rot
        y2 == IF "RIGHT" \in key THEN y1 - 1 ELSE y1
        r2 == IF "RIGHT" \in key THEN y2 ELSE r1
    IN  [cam |-> [Pos |-> p4, Rot |-> r2], Yaw |-> y2]

\* ------------------------------------------------------ device and mirror
\* hmdDesc.Resolution as ovr_GetHmdDesc may report it: even and odd sizes
Resolutions == {[w |-> 1920, h |-> 1080], [w |-> 1281, h |-> 801]}

NullDesc == [Resolution |-> [w |-> 0, h |-> 0]]

\* int / int: the quotient is truncated towards zero
IntDiv(a, b) == IF a >= 0 THEN a \div b ELSE -((-a) \div b)

\* no device yet; the window was created with CreateWindowW(..., 0, 0, 0, 0, ...)
NoDevice == [WinSizeW |-> 0, WinSizeH |-> 0, Client |-> <<0, 0>>, BackBuffer |-> <<0, 0>>]

\* DirectX11::InitDevice / DirectX11::DirectX11 on the object d with viewport
\* vpW x vpH, coming to outcome out: WinSizeW and WinSizeH are set first, the
\* window's client area is resized unless SetWindowPos fails, and the swap
\* chain's back buffer exists once every later step succeeded
DirectX11(d, vpW, vpH, out) ==
    LET d1 == [d EXCEPT !.WinSizeW = vpW, !.WinSizeH = vpH] IN
    IF out \in {"false", "SetWindowPos() failed."} THEN d1
    ELSE LET d2 == [d1 EXCEPT !.Client = <<vpW, vpH>>] IN
         IF out = "ok" THEN [d2 EXCEPT !.BackBuffer = <<d1.WinSizeW, d1.WinSizeH>>] ELSE d2

NullTd == [Width |-> 0, Height |-> 0]

\* the width and the height of the mirror texture change places
MirrorTextureDesc_swapped(d) == [Width |-> d.WinSizeH, Height |-> d.WinSizeW]

\* CD3D11_TEXTURE2D_DESC td(..., WinSizeW, WinSizeH, 1, 1) of the mirror texture
MirrorTextureDesc(d) == [Width |-> d.WinSizeW, Height |-> d.WinSizeH]

\* the set-up steps of a MainLoop call that reaches its render loop
SetupOrder ==
    <<"ovr_Create", "InitDevice", "OculusTexture", "OculusTexture", "MirrorTexture", "Scene">>

NotAdvanced == [e \in Eyes |-> [count |-> 0, rtv |-> -1]]

\* ------------------------------------------------------------ triangle sets
MaxBoxes == 3      \* AddBox calls made in one run of the box check
FullBoxes == 909   \* boxes already in the nearly full set the box check may start from

\* static_cast<short>: 16 bits, two's complement
short(n) == ((n + 32768) % 65536) - 32768

\* a TriangleSet after construction
EmptySet == [Vertices |-> <<>>, Indices |-> <<>>]

\* Vertex{ {x, y, z}, ModifyColor(c, {x, y, z}), u, v }, in tenths; the colour,
\* which ModifyColor computes from rand(), is not part of the model
Vertex(x, y, z, u, v) == [Pos |-> XMFLOAT3(x, y, z), U |-> u, V |-> v]

\* the boxes of the scene's cube, spareCube, walls and floors, in tenths
BoxArgs ==
    { <<5, -5, 5, -5, 5, -5>>,
      <<1, -1, 1, -1, 1, -1>>,
      <<101, 0, 200, 100, 40, -200>>,
      <<100, -1, 201, -100, 40, 200>>,
      <<100, -1, 200, -100, 0, -201>> }

\* mutant of AddTriangle: the index is taken after the vertex is pushed
RECURSIVE AddTriangle_pushFirst(_, _)
AddTriangle_pushFirst(ts, vs) ==
    IF vs = <<>>
    THEN ts
    ELSE AddTriangle_pushFirst(
             [Vertices |-> Append(ts.Vertices, Head(vs)),
              Indices |-> Append(ts.Indices, short(Len(ts.Vertices) + 1))],
             Tail(vs))

\* for (const auto& v : vs) { Indices.push_back(static_cast<short>(size(Vertices)));
\*                            Vertices.push_back(v); }
RECURSIVE AddTriangle(_, _)
AddTriangle(ts, vs) ==
    IF vs = <<>>
    THEN ts
    ELSE AddTriangle(
             [Vertices |-> Append(ts.Vertices, Head(vs)),
              Indices |-> Append(ts.Indices, short(Len(ts.Vertices)))],
             Tail(vs))

\* AddTriangle({v0, v1, v2}); AddTriangle({v3, v2, v1});
AddQuad(ts, v0, v1, v2, v3) ==
    AddTriangle(AddTriangle(ts, <<v0, v1, v2>>), <<v3, v2, v1>>)

\* TriangleSet::AddBox / AddSolidColorBox: six quads
AddBox(ts, x1, y1, z1, x2, y2, z2) ==
    LET q1 == AddQuad(ts, Vertex(x1, y2, z1, z1, x1), Vertex(x2, y2, z1, z1, x2),
                          Vertex(x1, y2, z2, z2, x1), Vertex(x2, y2, z2, z2, x2))
        q2 == AddQuad(q1, Vertex(x2, y1, z1, z1, x2), Vertex(x1, y1, z1, z1, x1),
                          Vertex(x2, y1, z2, z2, x2), Vertex(x1, y1, z2, z2, x1))
        q3 == AddQuad(q2, Vertex(x1, y1, z2, z2, y1), Vertex(x1, y1, z1, z1, y1),
                          Vertex(x1, y2, z2, z2, y2), Vertex(x1, y2, z1, z1, y2))
        q4 == AddQuad(q3, Vertex(x2, y1, z1, z1, y1), Vertex(x2, y1, z2, z2, y1),
                          Vertex(x2, y2, z1, z1, y2), Vertex(x2, y2, z2, z2, y2))
        q5 == AddQuad(q4, Vertex(x1, y1, z1, x1, y1), Vertex(x2, y1, z1, x2, y1),
                          Vertex(x1, y2, z1, x1, y2), Vertex(x2, y2, z1, x2, y2))
    IN  AddQuad(q5, Vertex(x2, y1, z2, x2, y1), Vertex(x1, y1, z2, x1, y1),
                    Vertex(x2, y2, z2, x2, y2), Vertex(x1, y2, z2, x1, y2))

\* n calls furniture.AddBox(3, 0.0f, -f, 2.9f, 1.3f, -f - 0.1f, c) on ts, one
\* after the other, f taken as 3.0 in each: the first half of the calls, then
\* the rest on the set h they leave (h is bound to a value, which keeps TLC's
\* evaluation shallow)
RECURSIVE Posts(_, _)
Posts(ts, n) ==
    IF n = 0
    THEN ts
    ELSE IF n = 1
         THEN AddBox(ts, 30, 0, -30, 29, 13, -31)
         ELSE CHOOSE r \in {Posts(h, n - (n \div 2)) : h \in {Posts(ts, n \div 2)}} : TRUE

\* ----------------------------------------------------------------- textures
SizeW == 256   \* const int SizeW{256} (w)
SizeH == 256   \* const int SizeH{256} (h)

\* a DWORD, kept as its two 16-bit halves, from its four bytes 0xAARRGGBB
ARGB(a, r, g, b) == [hi |-> a * 256 + r, lo |-> g * 256 + b]

\* the DWORD an int that is not negative converts to
DWORD(n) == [hi |-> n \div 65536, lo |-> n % 65536]

\* unsigned 32-bit addition: the carry out of the high half is dropped
Add32(a, b) ==
    [hi |-> (a.hi + b.hi + (a.lo + b.lo) \div 65536) % 65536,
     lo |-> (a.lo + b.lo) % 65536]

\* the enumerators of TextureFill in revision r, and a value that is none of them
TextureFills(r) ==
    IF r = 1
    THEN {"AUTO_WHITE", "AUTO_WALL", "AUTO_FLOOR", "AUTO_CEILING", "AUTO_GRID", "AUTO_GRADE_256"}
    ELSE {"AUTO_WHITE", "AUTO_WALL", "AUTO_FLOOR", "AUTO_CEILING"}

OtherFill == "other"

\* no createTexture call in progress
NoPix == <<>>

NotAssigned == [count |-> 0, at |-> {}]

\* std::vector<DWORD> pix(SizeW * SizeH): value-initialised
NewPix == [c \in 0..(SizeH - 1) |-> [e \in 0..(SizeW - 1) |-> ARGB(0, 0, 0, 0)]]

\* pix[k]
Load(p, k) == p[k \div SizeW][k % SizeW]

\* pix[k] = v
Store(p, k, v) == [p EXCEPT ![k \div SizeW][k % SizeW] = v]

\* mutant of Index: the row stride is left out
Index_noStride(j, i) == j + i

\* pix[j * SizeW + i]
Index(j, i) == j * SizeW + i

\* the switch (texFill) of createTexture at texel (i, j); on values that are not
\* negative, / 4 is \div 4, & 15 is % 16, >> 4 is \div 16, and the exclusive or
\* of two bits is their sum modulo 2
Texel(r, fill, i, j) ==
    IF fill \notin TextureFills(r)
    THEN ARGB(255, 255, 255, 255)
    ELSE CASE fill = "AUTO_WALL" ->
                IF \/ (j \div 4) % 16 = 0
                   \/ /\ (i \div 4) % 16 = 0
                      /\ (IF (i \div 4) % 32 = 0 THEN 1 ELSE 0) = ((j \div 4) \div 16) % 2
                THEN ARGB(255, 60, 60, 60)
                ELSE ARGB(255, 180, 180, 180)
           [] fill = "AUTO_FLOOR" ->
                IF ((i \div 128) + (j \div 128)) % 2 = 1
                THEN ARGB(255, 180, 180, 180)
                ELSE ARGB(255, 80, 80, 80)
           [] fill = "AUTO_CEILING" ->
                IF i \div 4 = 0 \/ j \div 4 = 0
                THEN ARGB(255, 80, 80, 80)
                ELSE ARGB(255, 180, 180, 180)
           [] fill = "AUTO_WHITE" -> ARGB(255, 255, 255, 255)
           [] fill = "AUTO_GRADE_256" -> Add32(ARGB(255, 0, 0, 0), DWORD(i * 65793))
           [] fill = "AUTO_GRID" ->
                IF i < 4 \/ i > SizeW - 5 \/ j < 4 \/ j > SizeH - 5
                THEN ARGB(255, 255, 255, 255)
                ELSE ARGB(255, 0, 0, 0)

\* the inner loop of row j for i = lo..hi on p: curr = pix[j * SizeW + i] is
\* assigned for the first half of the range, then for the rest on the pix h
\* that leaves (h is bound to a value, which keeps TLC's evaluation shallow)
RECURSIVE Row(_, _, _, _, _, _)
Row(p, r, fill, j, lo, hi) ==
    IF lo = hi
    THEN Store(p, Index(j, lo), Texel(r, fill, lo, j))
    ELSE CHOOSE q \in {Row(h, r, fill, j, (lo + hi) \div 2 + 1, hi) :
                          h \in {Row(p, r, fill, j, lo, (lo + hi) \div 2)}} : TRUE

\* ------------------------------------------------------------------- Init
Init ==
    /\ rev \in Revs
    /\ pc = "WinMain"
    /\ exitCode = 0
    /\ exitMsg = ""
    /\ libOVR = "none"
    /\ Running = FALSE
    /\ Key = {}
    /\ retryCreate = FALSE
    /\ calls = <<>>
    /\ lastEnd = "none"
    /\ sleeps = <<>>
    /\ result = ovrSuccess
    /\ HMD = 0
    /\ hmdDestroyed = <<>>
    /\ TextureSet = [e \in Eyes |-> NullTS]
    /\ mirrorTexture = FALSE
    /\ eye = 0
    /\ isVisible = FALSE
    /\ steps = <<>>
    /\ renders = <<>>
    /\ submitted = <<>>
    /\ Models = <<>>
    /\ cubeClock = 0
    /\ mainCam = Camera
    /\ Yaw = 0
    /\ hmdDesc = NullDesc
    /\ DIRECTX = NoDevice
    /\ deviceInits = 0
    /\ mirrorTd = NullTd
    /\ setup = <<>>
    /\ frames = 0
    /\ advanced = NotAdvanced
    /\ triangleSet = EmptySet
    /\ boxes = 0
    /\ texFill = "none"
    /\ pixRow = 0
    /\ pix = NoPix
    /\ assigned = NotAssigned

\* ------------------------------------------------------- calls and exits
\* VALIDATE(false, msg): MessageBoxA, then exit(-1); no local object is destroyed
VALIDATE_failed(msg) ==
    /\ pc' = "exited"
    /\ exitCode' = -1
    /\ exitMsg' = msg

\* Run calls MainLoop(retry): `auto result = ovrResult{}' and a fresh iteration log
CallMainLoop(retry) ==
    /\ Len(calls) < MaxSessions
    /\ calls' = Append(calls, [retryCreate |-> retry, returned |-> FALSE, ret |-> FALSE])
    /\ retryCreate' = retry
    /\ lastEnd' = "running"
    /\ result' = ovrSuccess
    /\ steps' = <<>>
    /\ renders' = <<>>
    /\ submitted' = <<>>
    /\ setup' = <<>>
    /\ frames' = 0
    /\ advanced' = NotAdvanced
    /\ pc' = "ovr_Create"

\* the DirectX11 object when MainLoop returns: revision 2's local `directx' is
\* destroyed (the window keeps its size), revision 1's global DIRECTX stays
DirectX11_dtor(r, d) == IF r = 2 THEN [NoDevice EXCEPT !.Client = d.Client] ELSE d

\* `return v' from MainLoop holding HMD handle h: the locals are destroyed in
\* reverse order (scene, mirror texture, eye textures, hmdDesc, HMD) and Run goes on
Return(v, why, h) ==
    /\ calls' = [calls EXCEPT ![Len(calls)] = [@ EXCEPT !.returned = TRUE, !.ret = v]]
    /\ lastEnd' = why
    /\ Models' = <<>>
    /\ mirrorTexture' = FALSE
    /\ mirrorTd' = NullTd
    /\ hmdDesc' = NullDesc
    /\ TextureSet' = [e \in Eyes |-> NullTS]
    /\ hmdDestroyed' = unique_ptr_dtor(h, hmdDestroyed)
    /\ HMD' = 0
    /\ pc' = IF Len(calls) = 1 THEN "Run_VALIDATE" ELSE "Run_retried"

\* mutant of MainLoopExitValue: true only to retry after ovrError_DisplayLost
MainLoopExitValue_lostOnly(r, retry, res, running) ==
    retry \/ res = ovrError_DisplayLost

\* the value of MainLoop's last return statement
MainLoopExitValue(r, retry, res, running) ==
    IF r = 1 THEN retry \/ OVR_SUCCESS(res) \/ res = ovrError_DisplayLost
    ELSE retry \/ ~running \/ res = ovrError_DisplayLost

\* ---------------------------------------------------------------- WinMain
WinMain ==
    /\ pc = "WinMain"
    /\ \E r \in CallResults :
         IF OVR_SUCCESS(r)
         THEN /\ libOVR' = "initialized"
              /\ pc' = "InitWindow"
              /\ UNCHANGED <<exitCode, exitMsg>>
         ELSE /\ VALIDATE_failed("Failed to initialize libOVR.")
              /\ UNCHANGED libOVR
    /\ UNCHANGED <<rev, hmdDesc, DIRECTX, deviceInits, mirrorTd, setup, frames, advanced, triangleSet, boxes, texFill, pixRow, pix, assigned,
                   Running, Key, retryCreate, calls, lastEnd, sleeps, result, HMD,
                   hmdDestroyed, TextureSet, mirrorTexture, eye, isVisible, steps,
                   renders, submitted, Models, cubeClock, mainCam, Yaw>>

\* DirectX11::InitWindow (revision 1, checked by VALIDATE) / Window::Window
\* (revision 2, unchecked): created says whether CreateWindowW gave a window
InitWindow ==
    /\ pc = "InitWindow"
    /\ Running' = TRUE
    /\ \E created \in BOOLEAN :
         IF rev = 1 /\ ~created
         THEN VALIDATE_failed("Failed to open window.")
         ELSE /\ pc' = "Run"
              /\ UNCHANGED <<exitCode, exitMsg>>
    /\ UNCHANGED <<rev, hmdDesc, DIRECTX, deviceInits, mirrorTd, setup, frames, advanced, triangleSet, boxes, texFill, pixRow, pix, assigned,
                   libOVR, Key, retryCreate, calls, lastEnd, sleeps, result, HMD,
                   hmdDestroyed, TextureSet, mirrorTexture, eye, isVisible, steps,
                   renders, submitted, Models, cubeClock, mainCam, Yaw>>

\* ovr_Shutdown and the end of WinMain; revision 1 has no return statement
ovr_Shutdown ==
    /\ pc = "ovr_Shutdown"
    /\ libOVR' = "shutdown"
    /\ pc' = "done"
    /\ exitCode' \in (IF rev = 1 THEN {-1, 0, 1} ELSE {0})
    /\ UNCHANGED <<rev, hmdDesc, DIRECTX, deviceInits, mirrorTd, setup, frames, advanced, triangleSet, boxes, texFill, pixRow, pix, assigned,
                   exitMsg, Running, Key, retryCreate, calls, lastEnd, sleeps,
                   result, HMD, hmdDestroyed, TextureSet, mirrorTexture, eye, isVisible,
                   steps, renders, submitted, Models, cubeClock, mainCam, Yaw>>

\* -------------------------------------------------------------------- Run
\* VALIDATE(MainLoop(false), ...): the call
Run ==
    /\ pc = "Run"
    /\ CallMainLoop(FALSE)
    /\ UNCHANGED <<rev, hmdDesc, DIRECTX, deviceInits, mirrorTd, triangleSet, boxes, texFill, pixRow, pix, assigned,
                   exitCode, exitMsg, libOVR, Running, Key, sleeps, HMD, hmdDestroyed,
                   TextureSet, mirrorTexture, eye, isVisible, Models, cubeClock,
                   mainCam, Yaw>>

\* mutant of Run_VALIDATE: the value MainLoop(false) returned is not tested
Run_VALIDATE_unchecked ==
    /\ pc = "Run_VALIDATE"
    /\ pc' = "Run_while"
    /\ UNCHANGED <<rev, hmdDesc, DIRECTX, deviceInits, mirrorTd, setup, frames, advanced, triangleSet, boxes, texFill, pixRow, pix, assigned,
                   exitCode, exitMsg, libOVR, Running, Key, retryCreate, calls,
                   lastEnd, sleeps, result, HMD, hmdDestroyed, TextureSet, mirrorTexture,
                   eye, isVisible, steps, renders, submitted, Models, cubeClock, mainCam, Yaw>>

\* VALIDATE(MainLoop(false), ...): the test of the value returned
Run_VALIDATE ==
    /\ pc = "Run_VALIDATE"
    /\ IF calls[1].ret
       THEN /\ pc' = "Run_while"
            /\ UNCHANGED <<exitCode, exitMsg>>
       ELSE VALIDATE_failed("Oculus Rift not detected.")
    /\ UNCHANGED <<rev, hmdDesc, DIRECTX, deviceInits, mirrorTd, setup, frames, advanced, triangleSet, boxes, texFill, pixRow, pix, assigned,
                   libOVR, Running, Key, retryCreate, calls, lastEnd, sleeps, result,
                   HMD, hmdDestroyed, TextureSet, mirrorTexture, eye, isVisible, steps,
                   renders, submitted, Models, cubeClock, mainCam, Yaw>>

\* while (HandleMessages()) { if (!MainLoop(true)) break; Sleep(10); }: from the
\* return of a MainLoop call to the next call or to the end of the loop.  At
\* "Run_retried" MainLoop(true) has just returned: the break, or Sleep(10) and the
\* loop test again.
Run_while ==
    /\ pc \in {"Run_while", "Run_retried"}
    /\ IF pc = "Run_retried" /\ ~calls[Len(calls)].ret
       THEN /\ pc' = "ovr_Shutdown"
            /\ UNCHANGED <<Running, Key, retryCreate, calls, lastEnd, sleeps, result,
                           steps, renders, submitted, setup, frames, advanced>>
       ELSE \E h \in {HandleMessages([Running |-> Running, Key |-> Key], msgs) :
                           msgs \in MsgSeqs(PumpedKeys)} :
              /\ Running' = h.window.Running
              /\ Key' = h.window.Key
              /\ sleeps' = IF pc = "Run_retried" THEN Append(sleeps, SleepMs) ELSE sleeps
              /\ IF h.ret
                 THEN CallMainLoop(TRUE)
                 ELSE /\ pc' = "ovr_Shutdown"
                      /\ UNCHANGED <<retryCreate, calls, lastEnd, result, steps,
                                     renders, submitted, setup, frames, advanced>>
    /\ UNCHANGED <<rev, hmdDesc, DIRECTX, deviceInits, mirrorTd, triangleSet, boxes, texFill, pixRow, pix, assigned,
                   exitCode, exitMsg, libOVR, HMD, hmdDestroyed, TextureSet,
                   mirrorTexture, eye, isVisible, Models, cubeClock, mainCam, Yaw>>

\* --------------------------------------------------------- MainLoop: set-up
\* ovr_Create into create_unique, `if (!OVR_SUCCESS(result)) return retryCreate',
\* and ovr_GetHmdDesc
ovr_Create ==
    /\ pc = "ovr_Create"
    /\ \E r \in CallResults, res \in Resolutions :
         /\ result' = r
         /\ IF OVR_SUCCESS(r)
            THEN /\ HMD' = Len(hmdDestroyed) + 1
                 /\ hmdDestroyed' = Append(hmdDestroyed, 0)
                 /\ hmdDesc' = [Resolution |-> res]
                 /\ setup' = Append(setup, "ovr_Create")
                 /\ pc' = "InitDevice"
                 /\ UNCHANGED <<calls, lastEnd, Models, mirrorTexture, mirrorTd, TextureSet>>
            ELSE /\ Return(retryCreate, "ovr_Create", 0)
                 /\ UNCHANGED setup
    /\ UNCHANGED <<rev, DIRECTX, deviceInits, frames, advanced, triangleSet, boxes, texFill, pixRow, pix, assigned,
                   exitCode, exitMsg, libOVR, Running, Key, retryCreate, sleeps, eye,
                   isVisible, steps, renders, submitted, cubeClock, mainCam, Yaw>>

\* what DirectX11::InitDevice (revision 1) or DirectX11::DirectX11 (revision 2) can
\* come to: "ok", "false" (InitDevice returns false) or the text of a failed VALIDATE
InitDeviceOutcomes(r) ==
    IF r = 1
    THEN {"ok", "false", "CreateDXGIFactory1 failed", "D3D11CreateDevice failed",
          "CreateSwapChain failed", "CreateRenderTargetView failed", "QueryInterface failed"}
    ELSE {"ok", "SetWindowPos() failed.", "CreateDXGIFactory1 failed",
          "D3D11CreateDevice failed", "IDXGISwapChain::GetBuffer() failed",
          "QueryInterface failed"}

\* "Setup Device and Graphics"
InitDevice ==
    /\ pc = "InitDevice"
    /\ deviceInits' = deviceInits + 1
    /\ \E out \in InitDeviceOutcomes(rev) :
         /\ DIRECTX' = DirectX11(DIRECTX, IntDiv(hmdDesc.Resolution.w, 2),
                                 IntDiv(hmdDesc.Resolution.h, 2), out)
         /\ CASE out = "ok" ->
                  /\ pc' = "ConfigureTracking"
                  /\ setup' = Append(setup, "InitDevice")
                  /\ UNCHANGED <<exitCode, exitMsg, calls, lastEnd, Models, mirrorTexture,
                                 mirrorTd, hmdDesc, TextureSet, hmdDestroyed, HMD>>
              [] out = "false" ->
                  /\ Return(retryCreate, "InitDevice", HMD)
                  /\ UNCHANGED <<exitCode, exitMsg, setup>>
              [] OTHER ->
                  /\ VALIDATE_failed(out)
                  /\ UNCHANGED <<calls, lastEnd, Models, mirrorTexture, mirrorTd, hmdDesc,
                                 TextureSet, hmdDestroyed, HMD, setup>>
    /\ UNCHANGED <<rev, frames, advanced, triangleSet, boxes, texFill, pixRow, pix, assigned,
                   libOVR, Running, Key, retryCreate, sleeps, result, eye, isVisible,
                   steps, renders, submitted, cubeClock, mainCam, Yaw>>

\* ovr_ConfigureTracking and its VALIDATE
ConfigureTracking ==
    /\ pc = "ConfigureTracking"
    /\ \E r \in CallResults :
         /\ result' = r
         /\ IF OVR_SUCCESS(r)
            THEN /\ pc' = "OculusTexture"
                 /\ eye' = 0
                 /\ UNCHANGED <<exitCode, exitMsg>>
            ELSE /\ VALIDATE_failed("Failed to configure tracking.")
                 /\ UNCHANGED eye
    /\ UNCHANGED <<rev, hmdDesc, DIRECTX, deviceInits, mirrorTd, setup, frames, advanced, triangleSet, boxes, texFill, pixRow, pix, assigned,
                   libOVR, Running, Key, retryCreate, calls, lastEnd, sleeps, HMD,
                   hmdDestroyed, TextureSet, mirrorTexture, isVisible, steps, renders,
                   submitted, Models, cubeClock, mainCam, Yaw>>

\* mutant of EyeRenderTexture: the scene is built before the mirror texture is created
EyeRenderTexture_thenScene ==
    /\ pc = "OculusTexture"
    /\ eye \in Eyes
    /\ \E r \in CallResults, n \in 1..MaxTextureCount :
       \E i \in 0..(n - 1) :
         LET t == OculusTexture(r, [TextureCount |-> n, CurrentIndex |-> i]) IN
         IF t.msg = ""
         THEN /\ TextureSet' = [TextureSet EXCEPT ![eye] = t.ts]
              /\ eye' = eye + 1
              /\ setup' = Append(setup, "OculusTexture")
              /\ pc' = IF eye + 1 < 2 THEN "OculusTexture" ELSE "Scene"
              /\ UNCHANGED <<exitCode, exitMsg>>
         ELSE /\ VALIDATE_failed(t.msg)
              /\ UNCHANGED <<TextureSet, eye, setup>>
    /\ UNCHANGED <<rev, hmdDesc, DIRECTX, deviceInits, mirrorTd, frames, advanced, triangleSet, boxes, texFill, pixRow, pix, assigned,
                   libOVR, Running, Key, retryCreate, calls, lastEnd, sleeps, result,
                   HMD, hmdDestroyed, mirrorTexture, isVisible, steps, renders, submitted,
                   Models, cubeClock, mainCam, Yaw>>

\* OculusTexture EyeRenderTexture[] = {{HMD, idealSizes[0]}, {HMD, idealSizes[1]}}:
\* one constructor per step; the runtime picks the set's size and a valid index
EyeRenderTexture ==
    /\ pc = "OculusTexture"
    /\ eye \in Eyes
    /\ \E r \in CallResults, n \in 1..MaxTextureCount :
       \E i \in 0..(n - 1) :
         LET t == OculusTexture(r, [TextureCount |-> n, CurrentIndex |-> i]) IN
         IF t.msg = ""
         THEN /\ TextureSet' = [TextureSet EXCEPT ![eye] = t.ts]
              /\ eye' = eye + 1
              /\ setup' = Append(setup, "OculusTexture")
              /\ pc' = IF eye + 1 < 2 THEN "OculusTexture" ELSE "MirrorTexture"
              /\ UNCHANGED <<exitCode, exitMsg>>
         ELSE /\ VALIDATE_failed(t.msg)
              /\ UNCHANGED <<TextureSet, eye, setup>>
    /\ UNCHANGED <<rev, hmdDesc, DIRECTX, deviceInits, mirrorTd, frames, advanced, triangleSet, boxes, texFill, pixRow, pix, assigned,
                   libOVR, Running, Key, retryCreate, calls, lastEnd, sleeps, result,
                   HMD, hmdDestroyed, mirrorTexture, isVisible, steps, renders, submitted,
                   Models, cubeClock, mainCam, Yaw>>

\* ovr_CreateMirrorTextureD3D11 into create_unique, and its VALIDATE
MirrorTexture ==
    /\ pc = "MirrorTexture"
    /\ \E r \in CallResults :
         /\ result' = r
         /\ IF OVR_SUCCESS(r)
            THEN /\ mirrorTexture' = TRUE
                 /\ mirrorTd' = MirrorTextureDesc(DIRECTX)
                 /\ setup' = Append(setup, "MirrorTexture")
                 /\ pc' = "Scene"
                 /\ UNCHANGED <<exitCode, exitMsg>>
            ELSE /\ VALIDATE_failed("Failed to create mirror texture.")
                 /\ UNCHANGED <<mirrorTexture, mirrorTd, setup>>
    /\ UNCHANGED <<rev, hmdDesc, DIRECTX, deviceInits, frames, advanced, triangleSet, boxes, texFill, pixRow, pix, assigned,
                   libOVR, Running, Key, retryCreate, calls, lastEnd, sleeps, HMD,
                   hmdDestroyed, TextureSet, eye, isVisible, steps, renders, submitted,
                   Models, cubeClock, mainCam, Yaw>>

\* "Initialize the scene": roomScene, mainCam, isVisible
InitScene ==
    /\ pc = "Scene"
    /\ Models' = Scene
    /\ mainCam' = Camera
    /\ isVisible' = TRUE
    /\ setup' = Append(setup, "Scene")
    /\ pc' = "HandleMessages"
    /\ UNCHANGED <<rev, hmdDesc, DIRECTX, deviceInits, mirrorTd, frames, advanced, triangleSet, boxes, texFill, pixRow, pix, assigned,
                   exitCode, exitMsg, libOVR, Running, Key, retryCreate, calls,
                   lastEnd, sleeps, result, HMD, hmdDestroyed, TextureSet, mirrorTexture,
                   eye, steps, renders, submitted, cubeClock, Yaw>>

\* ------------------------------------------------- MainLoop: render loop
\* while (HandleMessages()) at the top of the loop, and the return after it
Loop_HandleMessages ==
    /\ pc = "HandleMessages"
    /\ \E h \in {HandleMessages([Running |-> Running, Key |-> Key], msgs) :
                      msgs \in MsgSeqs(PumpedKeys)} :
         /\ Running' = h.window.Running
         /\ Key' = h.window.Key
         /\ IF h.ret
            THEN /\ pc' = "HandleInput"
                 /\ steps' = <<"HandleMessages">>
                 /\ renders' = <<>>
                 /\ submitted' = <<>>
                 /\ frames' = frames + 1
                 /\ UNCHANGED <<calls, lastEnd, Models, mirrorTexture, mirrorTd, hmdDesc,
                                DIRECTX, TextureSet, hmdDestroyed, HMD>>
            ELSE /\ Return(MainLoopExitValue(rev, retryCreate, result, h.window.Running),
                           "loop exit", HMD)
                 /\ DIRECTX' = DirectX11_dtor(rev, DIRECTX)
                 /\ UNCHANGED <<steps, renders, submitted, frames>>
    /\ UNCHANGED <<rev, deviceInits, setup, advanced, triangleSet, boxes, texFill, pixRow, pix, assigned,
                   exitCode, exitMsg, libOVR, retryCreate, sleeps, result, eye,
                   isVisible, cubeClock, mainCam, Yaw>>

\* "Handle input"
Loop_HandleInput ==
    /\ pc = "HandleInput"
    /\ LET h == HandleInput(mainCam, Yaw, Key) IN
         /\ mainCam' = h.cam
         /\ Yaw' = h.Yaw
    /\ steps' = Append(steps, "HandleInput")
    /\ pc' = "AnimateCube"
    /\ UNCHANGED <<rev, hmdDesc, DIRECTX, deviceInits, mirrorTd, setup, frames, advanced, triangleSet, boxes, texFill, pixRow, pix, assigned,
                   exitCode, exitMsg, libOVR, Running, Key, retryCreate, calls,
                   lastEnd, sleeps, result, HMD, hmdDestroyed, TextureSet, mirrorTexture,
                   eye, isVisible, renders, submitted, Models, cubeClock>>

\* "Animate the cube"
Loop_AnimateCube ==
    /\ pc = "AnimateCube"
    /\ cubeClock < MaxClock
    /\ \E xArg \in {cubeClock, cubeClock + 1} :
         Models' = AnimateCube(Models, cubeClock, xArg)
    /\ cubeClock' = cubeClock + 1
    /\ steps' = Append(steps, "AnimateCube")
    /\ pc' = "EyePoses"
    /\ UNCHANGED <<rev, hmdDesc, DIRECTX, deviceInits, mirrorTd, setup, frames, advanced, triangleSet, boxes, texFill, pixRow, pix, assigned,
                   exitCode, exitMsg, libOVR, Running, Key, retryCreate, calls,
                   lastEnd, sleeps, result, HMD, hmdDestroyed, TextureSet, mirrorTexture,
                   eye, isVisible, renders, submitted, mainCam, Yaw>>

\* mutant of Loop_EyePoses: the eyes are rendered whether isVisible or not
Loop_EyePoses_always ==
    /\ pc = "EyePoses"
    /\ steps' = Append(steps, "EyePoses")
    /\ eye' = 0
    /\ pc' = "RenderEye"
    /\ UNCHANGED <<rev, hmdDesc, DIRECTX, deviceInits, mirrorTd, setup, frames, advanced, triangleSet, boxes, texFill, pixRow, pix, assigned,
                   exitCode, exitMsg, libOVR, Running, Key, retryCreate, calls,
                   lastEnd, sleeps, result, HMD, hmdDestroyed, TextureSet, mirrorTexture,
                   isVisible, renders, submitted, Models, cubeClock, mainCam, Yaw>>

\* "Get both eye poses", then `if (isVisible)' and the start of the per-eye loop
Loop_EyePoses ==
    /\ pc = "EyePoses"
    /\ steps' = Append(steps, "EyePoses")
    /\ eye' = 0
    /\ pc' = IF isVisible THEN "RenderEye" ELSE "SubmitFrame"
    /\ UNCHANGED <<rev, hmdDesc, DIRECTX, deviceInits, mirrorTd, setup, frames, advanced, triangleSet, boxes, texFill, pixRow, pix, assigned,
                   exitCode, exitMsg, libOVR, Running, Key, retryCreate, calls,
                   lastEnd, sleeps, result, HMD, hmdDestroyed, TextureSet, mirrorTexture,
                   isVisible, renders, submitted, Models, cubeClock, mainCam, Yaw>>

\* mutant of Loop_RenderEye: the render target is the texture at the index before the advance
Loop_RenderEye_bindOld ==
    /\ pc = "RenderEye"
    /\ eye < 2
    /\ LET ts == AdvanceToNextTexture(TextureSet[eye])
           texIndex == TextureSet[eye].CurrentIndex IN
         /\ TextureSet' = [TextureSet EXCEPT ![eye] = ts]
         /\ advanced' = [advanced EXCEPT ![eye] = [count |-> @.count + 1, rtv |-> texIndex]]
         /\ renders' = Append(renders, RenderEye(eye, texIndex))
    /\ steps' = Append(steps, "RenderEye")
    /\ eye' = eye + 1
    /\ pc' = IF eye + 1 < 2 THEN "RenderEye" ELSE "SubmitFrame"
    /\ UNCHANGED <<rev, hmdDesc, DIRECTX, deviceInits, mirrorTd, setup, frames, triangleSet, boxes, texFill, pixRow, pix, assigned,
                   exitCode, exitMsg, libOVR, Running, Key, retryCreate, calls,
                   lastEnd, sleeps, result, HMD, hmdDestroyed, mirrorTexture, isVisible,
                   submitted, Models, cubeClock, mainCam, Yaw>>

\* one pass of `for (eye ...)': advance the eye's texture set, bind, render the scene
Loop_RenderEye ==
    /\ pc = "RenderEye"
    /\ eye < 2
    /\ LET ts == AdvanceToNextTexture(TextureSet[eye])
           texIndex == ts.CurrentIndex IN
         /\ TextureSet' = [TextureSet EXCEPT ![eye] = ts]
         /\ advanced' = [advanced EXCEPT ![eye] = [count |-> @.count + 1, rtv |-> texIndex]]
         /\ renders' = Append(renders, RenderEye(eye, texIndex))
    /\ steps' = Append(steps, "RenderEye")
    /\ eye' = eye + 1
    /\ pc' = IF eye + 1 < 2 THEN "RenderEye" ELSE "SubmitFrame"
    /\ UNCHANGED <<rev, hmdDesc, DIRECTX, deviceInits, mirrorTd, setup, frames, triangleSet, boxes, texFill, pixRow, pix, assigned,
                   exitCode, exitMsg, libOVR, Running, Key, retryCreate, calls,
                   lastEnd, sleeps, result, HMD, hmdDestroyed, mirrorTexture, isVisible,
                   submitted, Models, cubeClock, mainCam, Yaw>>

\* mutant of Loop_SubmitFrame: the result of ovr_SubmitFrame is not tested
Loop_SubmitFrame_unchecked ==
    /\ pc = "SubmitFrame"
    /\ \E r \in SubmitResults :
         /\ result' = r
         /\ submitted' = Append(submitted, r)
         /\ isVisible' = (r = ovrSuccess)
    /\ pc' = "CopyResource"
    /\ steps' = Append(steps, "SubmitFrame")
    /\ UNCHANGED <<rev, hmdDesc, DIRECTX, deviceInits, mirrorTd, setup, frames, advanced, triangleSet, boxes, texFill, pixRow, pix, assigned,
                   exitCode, exitMsg, libOVR, Running, Key, retryCreate, calls,
                   lastEnd, sleeps, HMD, hmdDestroyed, TextureSet, mirrorTexture, eye,
                   renders, Models, cubeClock, mainCam, Yaw>>

\* mutant of Loop_SubmitFrame: every failed submit asks for another session
Loop_SubmitFrame_retry ==
    /\ pc = "SubmitFrame"
    /\ \E r \in SubmitResults :
         /\ result' = r
         /\ submitted' = Append(submitted, r)
         /\ IF ~OVR_SUCCESS(r)
            THEN /\ Return(TRUE, r, HMD)
                 /\ DIRECTX' = DirectX11_dtor(rev, DIRECTX)
                 /\ UNCHANGED isVisible
            ELSE /\ isVisible' = (r = ovrSuccess)
                 /\ pc' = "CopyResource"
                 /\ UNCHANGED <<calls, lastEnd, Models, mirrorTexture, mirrorTd, hmdDesc,
                                DIRECTX, TextureSet, hmdDestroyed, HMD>>
    /\ steps' = Append(steps, "SubmitFrame")
    /\ UNCHANGED <<rev, deviceInits, setup, frames, advanced, triangleSet, boxes, texFill, pixRow, pix, assigned,
                   exitCode, exitMsg, libOVR, Running, Key, retryCreate, sleeps, eye,
                   renders, cubeClock, mainCam, Yaw>>

\* mutant of Loop_SubmitFrame: a failed submit returns true for ovrError_DisplayLost only
Loop_SubmitFrame_lostOnly ==
    /\ pc = "SubmitFrame"
    /\ \E r \in SubmitResults :
         /\ result' = r
         /\ submitted' = Append(submitted, r)
         /\ IF ~OVR_SUCCESS(r)
            THEN /\ Return(r = ovrError_DisplayLost, r, HMD)
                 /\ DIRECTX' = DirectX11_dtor(rev, DIRECTX)
                 /\ UNCHANGED isVisible
            ELSE /\ isVisible' = (r = ovrSuccess)
                 /\ pc' = "CopyResource"
                 /\ UNCHANGED <<calls, lastEnd, Models, mirrorTexture, mirrorTd, hmdDesc,
                                DIRECTX, TextureSet, hmdDestroyed, HMD>>
    /\ steps' = Append(steps, "SubmitFrame")
    /\ UNCHANGED <<rev, deviceInits, setup, frames, advanced, triangleSet, boxes, texFill, pixRow, pix, assigned,
                   exitCode, exitMsg, libOVR, Running, Key, retryCreate, sleeps, eye,
                   renders, cubeClock, mainCam, Yaw>>

\* ovr_SubmitFrame, `if (!OVR_SUCCESS(result)) return retryCreate', isVisible
Loop_SubmitFrame ==
    /\ pc = "SubmitFrame"
    /\ \E r \in SubmitResults :
         /\ result' = r
         /\ submitted' = Append(submitted, r)
         /\ IF ~OVR_SUCCESS(r)
            THEN /\ Return(retryCreate, r, HMD)
                 /\ DIRECTX' = DirectX11_dtor(rev, DIRECTX)
                 /\ UNCHANGED isVisible
            ELSE /\ isVisible' = (r = ovrSuccess)
                 /\ pc' = "CopyResource"
                 /\ UNCHANGED <<calls, lastEnd, Models, mirrorTexture, mirrorTd, hmdDesc,
                                DIRECTX, TextureSet, hmdDestroyed, HMD>>
    /\ steps' = Append(steps, "SubmitFrame")
    /\ UNCHANGED <<rev, deviceInits, setup, frames, advanced, triangleSet, boxes, texFill, pixRow, pix, assigned,
                   exitCode, exitMsg, libOVR, Running, Key, retryCreate, sleeps, eye,
                   renders, cubeClock, mainCam, Yaw>>

\* mutant of Loop_CopyResource: Present comes before the copy
Loop_CopyResource_presentFirst ==
    /\ pc = "CopyResource"
    /\ steps' = Append(steps, "Present")
    /\ pc' = "Present"
    /\ UNCHANGED <<rev, hmdDesc, DIRECTX, deviceInits, mirrorTd, setup, frames, advanced, triangleSet, boxes, texFill, pixRow, pix, assigned,
                   exitCode, exitMsg, libOVR, Running, Key, retryCreate, calls,
                   lastEnd, sleeps, result, HMD, hmdDestroyed, TextureSet, mirrorTexture,
                   eye, isVisible, renders, submitted, Models, cubeClock, mainCam, Yaw>>

\* "Render mirror": CopyResource(BackBuffer, mirror texture)
Loop_CopyResource ==
    /\ pc = "CopyResource"
    /\ steps' = Append(steps, "CopyResource")
    /\ pc' = "Present"
    /\ UNCHANGED <<rev, hmdDesc, DIRECTX, deviceInits, mirrorTd, setup, frames, advanced, triangleSet, boxes, texFill, pixRow, pix, assigned,
                   exitCode, exitMsg, libOVR, Running, Key, retryCreate, calls,
                   lastEnd, sleeps, result, HMD, hmdDestroyed, TextureSet, mirrorTexture,
                   eye, isVisible, renders, submitted, Models, cubeClock, mainCam, Yaw>>

\* SwapChain->Present(0, 0), the last statement of the loop body
Loop_Present ==
    /\ pc = "Present"
    /\ steps' = Append(steps, "Present")
    /\ pc' = "HandleMessages"
    /\ UNCHANGED <<rev, hmdDesc, DIRECTX, deviceInits, mirrorTd, setup, frames, advanced, triangleSet, boxes, texFill, pixRow, pix, assigned,
                   exitCode, exitMsg, libOVR, Running, Key, retryCreate, calls,
                   lastEnd, sleeps, result, HMD, hmdDestroyed, TextureSet, mirrorTexture,
                   eye, isVisible, renders, submitted, Models, cubeClock, mainCam, Yaw>>

\* ------------------------------------------------------------------- Spec
Next ==
    \/ WinMain
    \/ InitWindow
    \/ Run
    \/ Run_VALIDATE
    \/ Run_while
    \/ ovr_Shutdown
    \/ ovr_Create
    \/ InitDevice
    \/ ConfigureTracking
    \/ EyeRenderTexture
    \/ MirrorTexture
    \/ InitScene
    \/ Loop_HandleMessages
    \/ Loop_HandleInput
    \/ Loop_AnimateCube
    \/ Loop_EyePoses
    \/ Loop_RenderEye
    \/ Loop_SubmitFrame
    \/ Loop_CopyResource
    \/ Loop_Present

Spec == Init /\ [][Next]_vars

\* A render-loop iteration in progress with every input state of "Handle input":
\* any movement keys down, the camera turned by Yaw and at most one step away
\* from where the session put it.
CamStarts ==
    {Camera.Pos} \cup
    {[Camera.Pos EXCEPT !.moved[b] = d] : b \in Basis, d \in {StepHundredths, -StepHundredths}}

InitCam ==
    /\ rev \in Revs
    /\ pc = "HandleInput"
    /\ exitCode = 0
    /\ exitMsg = ""
    /\ libOVR = "initialized"
    /\ Running = TRUE
    /\ Key \in SUBSET MoveKeys
    /\ retryCreate = FALSE
    /\ calls = <<[retryCreate |-> FALSE, returned |-> FALSE, ret |-> FALSE]>>
    /\ lastEnd = "running"
    /\ sleeps = <<>>
    /\ result = ovrSuccess
    /\ HMD = 1
    /\ hmdDestroyed = <<0>>
    /\ TextureSet = [e \in Eyes |-> [TextureCount |-> TexRtvSize, CurrentIndex |-> 0]]
    /\ mirrorTexture = TRUE
    /\ eye = 0
    /\ isVisible = TRUE
    /\ steps = <<"HandleMessages">>
    /\ renders = <<>>
    /\ submitted = <<>>
    /\ Models = Scene
    /\ cubeClock = 0
    /\ Yaw \in -MaxYaw..MaxYaw
    /\ \E p \in CamStarts : mainCam = [Pos |-> p, Rot |-> Yaw]
    /\ hmdDesc = [Resolution |-> [w |-> 1920, h |-> 1080]]
    /\ DIRECTX = DirectX11(NoDevice, 960, 540, "ok")
    /\ deviceInits = 1
    /\ mirrorTd = MirrorTextureDesc(DIRECTX)
    /\ setup = SetupOrder
    /\ frames = 1
    /\ advanced = NotAdvanced
    /\ triangleSet = EmptySet
    /\ boxes = 0
    /\ texFill = "none"
    /\ pixRow = 0
    /\ pix = NoPix
    /\ assigned = NotAssigned

NextCam == Loop_HandleInput

SpecCam == InitCam /\ [][NextCam]_vars

\* Run's retry loop entered with the window still running: the first MainLoop
\* call has returned true and left nothing behind but the window, the static
\* variables (its render loop ran MaxClock - 1 times) and, in revision 1, the
\* global DIRECTX.
InitRetry ==
    /\ rev \in Revs
    /\ pc = "Run_while"
    /\ exitCode = 0
    /\ exitMsg = ""
    /\ libOVR = "initialized"
    /\ Running = TRUE
    /\ Key = {}
    /\ retryCreate = FALSE
    /\ calls = <<[retryCreate |-> FALSE, returned |-> TRUE, ret |-> TRUE]>>
    /\ lastEnd = "loop exit"
    /\ sleeps = <<>>
    /\ result = ovrSuccess
    /\ HMD = 0
    /\ hmdDestroyed = <<1>>
    /\ TextureSet = [e \in Eyes |-> NullTS]
    /\ mirrorTexture = FALSE
    /\ eye = 0
    /\ isVisible = TRUE
    /\ steps = <<>>
    /\ renders = <<>>
    /\ submitted = <<>>
    /\ Models = <<>>
    /\ cubeClock = MaxClock - 1
    /\ mainCam = Camera
    /\ Yaw = 0
    /\ hmdDesc = NullDesc
    /\ DIRECTX = DirectX11_dtor(rev, DirectX11(NoDevice, 960, 540, "ok"))
    /\ deviceInits = 1
    /\ mirrorTd = NullTd
    /\ setup = SetupOrder
    /\ frames = 0
    /\ advanced = NotAdvanced
    /\ triangleSet = EmptySet
    /\ boxes = 0
    /\ texFill = "none"
    /\ pixRow = 0
    /\ pix = NoPix
    /\ assigned = NotAssigned

NextRetry ==
    \/ Run_while
    \/ ovr_Shutdown
    \/ ovr_Create
    \/ InitDevice
    \/ ConfigureTracking
    \/ EyeRenderTexture
    \/ MirrorTexture
    \/ InitScene
    \/ Loop_HandleMessages
    \/ Loop_HandleInput
    \/ Loop_AnimateCube
    \/ Loop_EyePoses
    \/ Loop_RenderEye
    \/ Loop_SubmitFrame
    \/ Loop_CopyResource
    \/ Loop_Present

SpecRetry == InitRetry /\ [][NextRetry]_vars

\* a TriangleSet being filled while the scene is built, empty or nearly full
InitBox ==
    /\ boxes \in {0, FullBoxes}
    /\ triangleSet = Posts(EmptySet, boxes)
    /\ texFill = "none"
    /\ pixRow = 0
    /\ pix = NoPix
    /\ assigned = NotAssigned
    /\ rev \in Revs
    /\ pc = "Scene"
    /\ exitCode = 0
    /\ exitMsg = ""
    /\ libOVR = "initialized"
    /\ Running = TRUE
    /\ Key = {}
    /\ retryCreate = FALSE
    /\ calls = <<[retryCreate |-> FALSE, returned |-> FALSE, ret |-> FALSE]>>
    /\ lastEnd = "running"
    /\ sleeps = <<>>
    /\ result = ovrSuccess
    /\ HMD = 1
    /\ hmdDestroyed = <<0>>
    /\ TextureSet = [e \in Eyes |-> [TextureCount |-> TexRtvSize, CurrentIndex |-> 0]]
    /\ mirrorTexture = TRUE
    /\ eye = 0
    /\ isVisible = FALSE
    /\ steps = <<>>
    /\ renders = <<>>
    /\ submitted = <<>>
    /\ Models = <<>>
    /\ cubeClock = 0
    /\ Yaw = 0
    /\ mainCam = Camera
    /\ hmdDesc = [Resolution |-> [w |-> 1920, h |-> 1080]]
    /\ DIRECTX = DirectX11(NoDevice, 960, 540, "ok")
    /\ deviceInits = 1
    /\ mirrorTd = MirrorTextureDesc(DIRECTX)
    /\ setup = SubSeq(SetupOrder, 1, 5)
    /\ frames = 0
    /\ advanced = NotAdvanced

\* one call of AddBox on the set
Scene_AddBox ==
    /\ pc = "Scene"
    /\ boxes < MaxBoxes \/ (boxes >= FullBoxes /\ boxes < FullBoxes + MaxBoxes)
    /\ \E b \in BoxArgs :
         triangleSet' = AddBox(triangleSet, b[1], b[2], b[3], b[4], b[5], b[6])
    /\ boxes' = boxes + 1
    /\ UNCHANGED <<rev, pc, exitCode, exitMsg, libOVR, Running, Key, retryCreate, calls,
                   lastEnd, sleeps, result, HMD, hmdDestroyed, TextureSet, mirrorTexture,
                   eye, isVisible, steps, renders, submitted, Models, cubeClock, mainCam,
                   Yaw, hmdDesc, DIRECTX, deviceInits, mirrorTd, setup, frames, advanced,
                   texFill, pixRow, pix, assigned>>

NextBox == Scene_AddBox

SpecBox == InitBox /\ [][NextBox]_vars

\* createTexture entered while the scene is built: pix allocated, nothing filled
InitTex ==
    /\ rev \in Revs
    /\ texFill \in TextureFills(rev) \cup {OtherFill}
    /\ pixRow = 0
    /\ pix = NewPix
    /\ assigned = NotAssigned
    /\ pc = "Scene"
    /\ exitCode = 0
    /\ exitMsg = ""
    /\ libOVR = "initialized"
    /\ Running = TRUE
    /\ Key = {}
    /\ retryCreate = FALSE
    /\ calls = <<[retryCreate |-> FALSE, returned |-> FALSE, ret |-> FALSE]>>
    /\ lastEnd = "running"
    /\ sleeps = <<>>
    /\ result = ovrSuccess
    /\ HMD = 1
    /\ hmdDestroyed = <<0>>
    /\ TextureSet = [e \in Eyes |-> [TextureCount |-> TexRtvSize, CurrentIndex |-> 0]]
    /\ mirrorTexture = TRUE
    /\ eye = 0
    /\ isVisible = FALSE
    /\ steps = <<>>
    /\ renders = <<>>
    /\ submitted = <<>>
    /\ Models = <<>>
    /\ cubeClock = 0
    /\ Yaw = 0
    /\ mainCam = Camera
    /\ hmdDesc = [Resolution |-> [w |-> 1920, h |-> 1080]]
    /\ DIRECTX = DirectX11(NoDevice, 960, 540, "ok")
    /\ deviceInits = 1
    /\ mirrorTd = MirrorTextureDesc(DIRECTX)
    /\ setup = SubSeq(SetupOrder, 1, 5)
    /\ frames = 0
    /\ advanced = NotAdvanced
    /\ triangleSet = EmptySet
    /\ boxes = 0

\* one iteration of createTexture's outer loop: the inner loop fills row pixRow
createTexture_row ==
    /\ pc = "Scene"
    /\ texFill # "none"
    /\ pixRow < SizeH
    /\ pix' = Row(pix, rev, texFill, pixRow, 0, SizeW - 1)
    /\ assigned' = [count |-> assigned.count + SizeW,
                    at |-> assigned.at \cup {Index(pixRow, i) : i \in 0..(SizeW - 1)}]
    /\ pixRow' = pixRow + 1
    /\ UNCHANGED <<rev, pc, exitCode, exitMsg, libOVR, Running, Key, retryCreate, calls,
                   lastEnd, sleeps, result, HMD, hmdDestroyed, TextureSet, mirrorTexture,
                   eye, isVisible, steps, renders, submitted, Models, cubeClock, mainCam,
                   Yaw, hmdDesc, DIRECTX, deviceInits, mirrorTd, setup, frames, advanced,
                   triangleSet, boxes, texFill>>

NextTex == createTexture_row

SpecTex == InitTex /\ [][NextTex]_vars

\* ----------------------------------------------------------------- claims
Last(sq) == sq[Len(sq)]

Count(sq, x) == Cardinality({i \in DOMAIN sq : sq[i] = x})

IsPrefix(a, b) == Len(a) <= Len(b) /\ \A i \in DOMAIN a : a[i] = b[i]

\* C1: whenever a MainLoop call returned because ovr_SubmitFrame gave
\* ovrError_DisplayLost, the value it returned is true, whatever retryCreate was.
C1_DisplayLostReturnsTrue ==
    lastEnd = ovrError_DisplayLost => calls[Len(calls)].ret

\* C2: after a session ended by ovrError_DisplayLost, Run does not stop while the
\* window is still running: it goes on to call MainLoop(true).
C2_RetriedAfterDisplayLost ==
    (lastEnd = ovrError_DisplayLost /\ pc \in {"exited", "ovr_Shutdown", "done"}) => ~Running

\* C3: once the first call MainLoop(false) has returned false, no second MainLoop
\* call is ever made, and the only step left is the exit with code -1 after the
\* message "Oculus Rift not detected.".
C3_FirstCallFalseExits ==
    (Len(calls) >= 1 /\ calls[1].returned /\ ~calls[1].ret)
        => /\ Len(calls) = 1
           /\ pc \in {"Run_VALIDATE", "exited"}
           /\ pc = "exited" => (exitCode = -1 /\ exitMsg = "Oculus Rift not detected.")

C3_Witness ==
    /\ pc = "exited"
    /\ exitMsg = "Oculus Rift not detected."
    /\ lastEnd = "ovr_Create"
    /\ Len(calls) = 1

\* the two shapes of a complete iteration: with and without eye rendering
IterationShapes ==
    { <<"HandleMessages", "HandleInput", "AnimateCube", "EyePoses">> \o r \o
      <<"SubmitFrame", "CopyResource", "Present">> : r \in {<<>>, <<"RenderEye", "RenderEye">>} }

\* C4: the steps of an iteration happen in the order HandleMessages, input, eye
\* poses, per-eye renders, ovr_SubmitFrame, mirror copy, Present; and the first
\* step of an iteration happens only after the Present of the one before it.
C4_StepOrder ==
    [][ /\ \E full \in IterationShapes : IsPrefix(steps', full)
        /\ (steps' # steps /\ Len(steps') = 1)
              => (steps = <<>> \/ Last(steps) = "Present") ]_vars

C4_Witness ==
    /\ pc = "HandleInput"
    /\ steps = <<"HandleMessages">>
    /\ cubeClock = 1

\* C5 as stated: when the process has terminated, every handle ovr_Create gave
\* has been passed to ovr_Destroy exactly once.
C5_DestroyedOnEveryExit ==
    pc \in {"exited", "done"} => \A h \in DOMAIN hmdDestroyed : hmdDestroyed[h] = 1

\* C5 amended: a handle is destroyed exactly once, when the MainLoop call that
\* created it returns, and never while that call still holds it; after every
\* return of MainLoop no handle is left undestroyed.  (A failed VALIDATE inside
\* MainLoop exits with the handle still held and never destroyed.)
C5_DestroyedOnReturn ==
    /\ \A h \in DOMAIN hmdDestroyed : hmdDestroyed[h] = (IF h = HMD THEN 0 ELSE 1)
    /\ (pc \in {"Run_VALIDATE", "Run_retried", "Run_while", "ovr_Shutdown", "done"}
           \/ (pc = "exited" /\ exitMsg = "Oculus Rift not detected."))
          => HMD = 0

C5_Witness ==
    /\ lastEnd \in SubmitResults
    /\ hmdDestroyed = <<1>>
    /\ HMD = 0

\* C6: a live swap texture set has two textures and a CurrentIndex of 0 or 1;
\* one advance moves the index to the other texture and two advances bring it
\* back; every index used on TexRtv is inside the two-element array.
C6_SwapRing ==
    /\ \A e \in Eyes :
         LET ts == TextureSet[e] IN
         ts # NullTS =>
           /\ ts.TextureCount = 2
           /\ ts.CurrentIndex \in {0, 1}
           /\ AdvanceToNextTexture(ts).CurrentIndex = 1 - ts.CurrentIndex
           /\ AdvanceToNextTexture(AdvanceToNextTexture(ts)).CurrentIndex = ts.CurrentIndex
    /\ \A i \in DOMAIN renders :
         /\ renders[i].rtv \in {0, 1}
         /\ TextureSet[renders[i].texture] # NullTS
               => renders[i].rtv = TextureSet[renders[i].texture].CurrentIndex

C6_Witness ==
    /\ pc = "SubmitFrame"
    /\ cubeClock = 2
    /\ Len(renders) = 2

\* C7: an iteration renders either no eye or exactly two, eye 0 first and eye 1
\* second, and each render uses its own eye's texture set, depth buffer and viewport.
C7_EyeRender ==
    /\ Len(renders) <= 2
    /\ \A i \in DOMAIN renders :
         /\ renders[i].eye = i - 1
         /\ renders[i].texture = i - 1
         /\ renders[i].depth = i - 1
         /\ renders[i].viewport = i - 1
    /\ Count(steps, "RenderEye") = Len(renders)
    /\ (\E i \in DOMAIN steps : steps[i] = "SubmitFrame") => Len(renders) \in {0, 2}

C7_Witness ==
    /\ Len(renders) = 2
    /\ Last(steps) = "Present"
    /\ renders[2].eye = 1

\* C8: in an iteration the mirror copy and Present happen at most once each and
\* only after ovr_SubmitFrame returned a success code; once such an iteration is
\* over both have happened exactly once, the copy right before Present; an
\* iteration whose ovr_SubmitFrame failed has neither.
C8_MirrorOncePerSuccess ==
    /\ Count(steps, "CopyResource") <= 1
    /\ Count(steps, "Present") <= 1
    /\ Len(submitted) <= 1
    /\ (Count(steps, "CopyResource") + Count(steps, "Present") > 0)
          => (submitted # <<>> /\ submitted[1] \in {ovrSuccess, ovrSuccess_NotVisible})
    /\ (submitted # <<>> /\ submitted[1] \in {ovrSuccess, ovrSuccess_NotVisible}
           /\ pc \notin {"CopyResource", "Present"})
          => /\ Len(steps) >= 2
             /\ steps[Len(steps) - 1] = "CopyResource"
             /\ steps[Len(steps)] = "Present"

C8_Witness ==
    /\ submitted = <<ovrSuccess_NotVisible>>
    /\ Last(steps) = "Present"
    /\ pc = "HandleMessages"

SceneNames == <<"cube", "spareCube", "walls", "floors", "ceiling", "furniture">>

\* C9: a scene always holds the six models cube, spare cube, walls, floors,
\* ceiling, furniture; while it lives only the cube-animation step changes it, and
\* that step changes only the position of model 0, whose height it sets to 3 and
\* which stays 3 from then on; every iteration animates once, rendered or not.
C9_StaticScene ==
    [][ /\ Models' # <<>> => [i \in DOMAIN Models' |-> Models'[i].name] = SceneNames
        /\ (Models # <<>> /\ Models' # <<>> /\ Models' # Models)
              => /\ pc = "AnimateCube"
                 /\ Models' = [Models EXCEPT ![1].Pos = Models'[1].Pos]
                 /\ Models'[1].Pos.y = [amp |-> 3, fn |-> "one", arg |-> 0]
        /\ (Models # <<>> /\ Models' # <<>> /\ Models[1].Pos.y = [amp |-> 3, fn |-> "one", arg |-> 0])
              => Models'[1].Pos.y = Models[1].Pos.y
        /\ Count(steps', "AnimateCube") <= 1
        /\ (\E i \in DOMAIN steps' : steps'[i] = "EyePoses") => Count(steps', "AnimateCube") = 1
        /\ (pc = "AnimateCube" /\ pc' # pc) => Models' # Models ]_vars

C9_Witness ==
    /\ pc = "HandleMessages"
    /\ steps # <<>>
    /\ Last(steps) = "Present"
    /\ renders = <<>>
    /\ Count(steps, "AnimateCube") = 1
    /\ Models[1].Pos.y.amp = 3

\* 1 if the condition holds, else 0
Held(b) == IF b THEN 1 ELSE 0

C12_StartupOrder ==
    [][ /\ (~Running /\ Running') => (libOVR = "initialized" /\ calls = <<>>)
        /\ Len(calls') > Len(calls) => (libOVR = "initialized" /\ Running)
        /\ IsPrefix(setup', SetupOrder)
        /\ deviceInits' > deviceInits => (HMD # 0 /\ setup = <<"ovr_Create">>)
        /\ (\E e \in Eyes : TextureSet[e] = NullTS /\ TextureSet'[e] # NullTS)
              => (HMD # 0 /\ Len(setup) >= 2 /\ ~mirrorTexture /\ Models = <<>>)
        /\ (~mirrorTexture /\ mirrorTexture')
              => (Len(setup) = 4 /\ \A e \in Eyes : TextureSet[e] # NullTS)
        /\ (Models = <<>> /\ Models' # <<>>) => (mirrorTexture /\ Len(setup) = 5)
        /\ (steps' # steps /\ steps' # <<>>) => (setup = SetupOrder /\ Models # <<>>) ]_vars

C12_Witness ==
    /\ pc = "HandleInput"
    /\ frames = 1
    /\ setup = SetupOrder
    /\ libOVR = "initialized"

\* C13: every MainLoop call made with retryCreate = true that has returned
\* (after a failed ovr_Create, a failed device set-up, a failed ovr_SubmitFrame
\* or the end of the render loop) returned true; so Run's retry loop never
\* breaks, and when it has ended HandleMessages has returned false.
C13_RetryReturnsTrue ==
    /\ \A i \in DOMAIN calls : (calls[i].retryCreate /\ calls[i].returned) => calls[i].ret
    /\ pc = "Run_retried" => calls[Len(calls)].ret
    /\ pc \in {"ovr_Shutdown", "done"} => ~Running

C13_Witness ==
    /\ pc = "Run_retried"
    /\ Len(calls) = 2
    /\ calls[2].retryCreate /\ calls[2].returned /\ calls[2].ret
    /\ lastEnd = ovrError_Other
    /\ Running

\* the positions inside a render-loop iteration up to the call of ovr_SubmitFrame
BeforeSubmit == {"HandleInput", "AnimateCube", "EyePoses", "RenderEye", "SubmitFrame"}

\* C14: in the first iteration of a MainLoop call isVisible is true, in a later
\* one it says whether the previous ovr_SubmitFrame returned exactly ovrSuccess;
\* an iteration advances swap textures and renders the eyes if and only if
\* isVisible is true; ovr_SubmitFrame is called exactly once in every iteration
\* that reaches it, rendered or not; so rendering resumes in the iteration after
\* a submit returned ovrSuccess.
C14_Visibility ==
    [][ /\ pc = "Scene" => isVisible'
        /\ (pc \in BeforeSubmit /\ frames = 1) => isVisible
        /\ (pc \in BeforeSubmit /\ frames > 1) => (isVisible = (result = ovrSuccess))
        /\ pc = "EyePoses" => ((pc' = "RenderEye") = isVisible)
        /\ pc = "RenderEye" => isVisible
        /\ (advanced' # advanced /\ advanced' # NotAdvanced)
              => (pc = "RenderEye" /\ isVisible /\ Len(renders') = Len(renders) + 1)
        /\ (\E e \in Eyes : TextureSet'[e] # TextureSet[e] /\ TextureSet[e] # NullTS
                             /\ TextureSet'[e] # NullTS)
              => (pc = "RenderEye" /\ isVisible)
        /\ pc = "SubmitFrame"
              => /\ Len(renders) = (IF isVisible THEN 2 ELSE 0)
                 /\ submitted = <<>>
                 /\ Len(submitted') = 1
        /\ pc \in {"CopyResource", "Present"} => Len(submitted) = 1 ]_vars

C14_Witness ==
    /\ pc = "SubmitFrame"
    /\ frames = 3
    /\ Len(renders) = 2
    /\ advanced[0].count = 2
    /\ isVisible

\* C15: one pass of the per-eye loop advances that eye's swap texture set once,
\* and no other, and renders to the view of the texture at the new CurrentIndex;
\* nothing else advances a set; so when ovr_SubmitFrame is called both eyes'
\* sets have been advanced the same number of times, at most once each in this
\* iteration, and, once a frame has been rendered, each eye's CurrentIndex is
\* the texture last rendered for that eye.
C15_AdvanceOncePerFrame ==
    [][ /\ pc = "RenderEye"
              => /\ advanced'[eye].count = advanced[eye].count + 1
                 /\ advanced'[1 - eye] = advanced[1 - eye]
                 /\ TextureSet'[1 - eye] = TextureSet[1 - eye]
                 /\ TextureSet'[eye].CurrentIndex = 1 - TextureSet[eye].CurrentIndex
                 /\ renders' = Append(renders, Last(renders'))
                 /\ Last(renders').eye = eye
                 /\ Last(renders').rtv = TextureSet'[eye].CurrentIndex
        /\ (advanced' # advanced /\ advanced' # NotAdvanced) => pc = "RenderEye"
        /\ pc = "SubmitFrame"
              => /\ advanced[0].count = advanced[1].count
                 /\ \A e \in Eyes : Count([i \in DOMAIN renders |-> renders[i].eye], e) <= 1
                 /\ advanced[0].count >= 1
                       => \A e \in Eyes : TextureSet[e].CurrentIndex = advanced[e].rtv ]_vars

C15_Witness ==
    /\ pc = "SubmitFrame"
    /\ advanced[0].count = 2
    /\ advanced[1].count = 2
    /\ renders = <<>>
    /\ TextureSet[0].CurrentIndex # TextureSet[1].CurrentIndex

\* Running has been set to false: the window was created with Running true
\* before the first MainLoop call
Stopped == ~Running /\ calls # <<>>

\* steps left to the end of WinMain once Running is false and MainLoop has returned
StepsToEnd(p) ==
    CASE p \in {"Run_VALIDATE", "Run_retried"} -> 3
      [] p = "Run_while" -> 2
      [] p = "ovr_Shutdown" -> 1
      [] p = "done" -> 0
      [] OTHER -> 4

\* C16: Running becomes false only inside HandleMessages.  When that happens in
\* the render loop, the loop ends at that very check: no further frame is
\* submitted, the HMD is destroyed and MainLoop returns true.  From then on the
\* thread is in Run or WinMain, at a step that waits for nothing, and every step
\* brings the end of WinMain nearer: no MainLoop call is started, the process
\* does not exit through VALIDATE, and ovr_Shutdown is called with every HMD
\* destroyed.
C16_Shutdown ==
    [][ /\ (Running /\ ~Running') => pc \in {"HandleMessages", "Run_while", "Run_retried"}
        /\ (pc = "HandleMessages" /\ ~Running')
              => /\ calls'[Len(calls')].returned /\ calls'[Len(calls')].ret
                 /\ steps' = steps /\ submitted' = submitted
                 /\ HMD' = 0 /\ hmdDestroyed'[HMD] = 1
                 /\ pc' \in {"Run_VALIDATE", "Run_retried"}
        /\ Stopped
              => /\ pc \in {"Run_VALIDATE", "Run_while", "Run_retried", "ovr_Shutdown", "done"}
                 /\ calls[Len(calls)].returned /\ calls[Len(calls)].ret
                 /\ calls' = calls /\ submitted' = submitted
                 /\ StepsToEnd(pc') < StepsToEnd(pc)
                 /\ HMD = 0
        /\ (libOVR # "shutdown" /\ libOVR' = "shutdown")
              => (Stopped /\ pc' = "done" /\ \A h \in DOMAIN hmdDestroyed : hmdDestroyed[h] = 1) ]_vars

C16_Witness ==
    /\ pc = "done"
    /\ libOVR = "shutdown"
    /\ "ESCAPE" \in Key
    /\ frames = 2
    /\ hmdDestroyed = <<1>>
    /\ calls = <<[retryCreate |-> FALSE, returned |-> TRUE, ret |-> TRUE]>>

\* C17: Running goes from false to true only when the window is created; after
\* that, once it is false no step and no message makes it true again, and a
\* HandleMessages call made then, whatever messages it pumps, returns false:
\* the loop that made the call is left and no further session is started.
C17_RunningStaysFalse ==
    [][ /\ (~Running /\ Running') => pc = "InitWindow"
        /\ (~Running /\ pc \notin {"WinMain", "InitWindow"})
              => /\ ~Running'
                 /\ \A m \in Messages(PumpedKeys) :
                      ~WindowProc([Running |-> Running, Key |-> Key], m).Running
        /\ (~Running /\ pc \in {"HandleMessages", "Run_while", "Run_retried"})
              => /\ pc' \in {"ovr_Shutdown", "Run_VALIDATE", "Run_retried"}
                 /\ calls' = calls \/ pc = "HandleMessages"
                 /\ frames' = frames ]_vars

C17_Witness ==
    /\ pc = "ovr_Shutdown"
    /\ ~Running
    /\ Key = {"W"}
    /\ lastEnd = "loop exit"
    /\ frames = 1
    /\ calls # <<>>
    /\ calls[Len(calls)].returned
    /\ calls[Len(calls)].ret

\* C18: for the window in any state and any WM_KEYDOWN, WM_KEYUP or WM_DESTROY
\* message, WindowProc records the key as down or up, and leaves Running false
\* if the message is WM_DESTROY, or Escape is then down, or Q and Control are
\* then both down; in every other case Running is what it was.
C18_WindowProc ==
    \A m \in Messages(PumpedKeys) :
       m.type \in {"WM_KEYDOWN", "WM_KEYUP", "WM_DESTROY"} =>
         LET w1 == WindowProc([Running |-> Running, Key |-> Key], m)
             down == CASE m.type = "WM_KEYDOWN" -> Key \cup {m.wParam}
                       [] m.type = "WM_KEYUP" -> Key \ {m.wParam}
                       [] OTHER -> Key
         IN  /\ w1.Key = down
             /\ w1.Running = IF \/ m.type = "WM_DESTROY"
                                \/ "ESCAPE" \in down
                                \/ {"Q", "CONTROL"} \subseteq down
                             THEN FALSE
                             ELSE Running

C18_Witness ==
    /\ pc = "Run_VALIDATE"
    /\ ~Running
    /\ Key = {"Q", "CONTROL"}
    /\ frames = 1

C20_BoxIndices ==
    LET V == triangleSet.Vertices
        I == triangleSet.Indices
    IN  /\ Len(V) = Len(I)
        /\ Len(V) = 36 * boxes
        /\ Len(V) <= 32768 => \A k \in 1..Len(I) : I[k] = k - 1

\* the largest set within the proviso: 910 boxes, the last index is 32759
C20_Witness ==
    /\ boxes = 910
    /\ Len(triangleSet.Vertices) = 32760
    /\ triangleSet.Indices[32760] = 32759
    /\ triangleSet.Vertices[32760].Pos # triangleSet.Vertices[1].Pos

\* one box more and the cast wraps: the index at position 32768 is -32768
C20_Wrapped ==
    /\ boxes = 911
    /\ Len(triangleSet.Indices) = 32796
    /\ triangleSet.Indices[32769] = -32768

\* the texel at index k holds the value its fill gives for its coordinates; its
\* alpha byte is 0xff; for AUTO_GRADE_256 it is the sum 0xff000000 + i * 0x010101
\* itself, the low half i * 0x0101 and the high half 0xff00 + i both below 2^16,
\* so that nothing is carried into the alpha byte or out of the 32 bits; for a
\* value that is no enumerator it is white
TexelFilled(k) ==
    /\ Load(pix, k) = Texel(rev, texFill, k % SizeW, k \div SizeW)
    /\ Load(pix, k).hi \div 256 = 255
    /\ texFill = "AUTO_GRADE_256"
         => /\ Load(pix, k).lo = (k % SizeW) * 257
            /\ Load(pix, k).hi = 65280 + (k % SizeW)
    /\ texFill \notin TextureFills(rev) => Load(pix, k) = ARGB(255, 255, 255, 255)

\* C21: while createTexture fills pix, for every fill and for a value that is
\* no enumerator, no texel has been assigned twice and the texels assigned are
\* those of the rows done, so all 256 x 256 once the loop ends; every texel of
\* the row just filled, and at the end of the loop every texel, is opaque and
\* holds the value that its fill and coordinates determine (TexelFilled).
C21_TextureFill ==
    texFill # "none" =>
      /\ assigned.count = pixRow * SizeW
      /\ Cardinality(assigned.at) = assigned.count
      /\ assigned.at \subseteq 0..(pixRow * SizeW - 1)
      /\ pixRow > 0 => \A i \in 0..(SizeW - 1) : TexelFilled((pixRow - 1) * SizeW + i)
      /\ pixRow = SizeH => \A k \in 0..(SizeW * SizeH - 1) : TexelFilled(k)

\* the first row of the gradient is filled: it runs from opaque black at i = 0
\* to opaque white, the largest sum, at i = 255
C21_Witness ==
    /\ texFill = "AUTO_GRADE_256"
    /\ pixRow = 1
    /\ assigned.count = SizeW
    /\ Load(pix, 0) = ARGB(255, 0, 0, 0)
    /\ Load(pix, 255) = ARGB(255, 255, 255, 255)

====
